---------------------------- MODULE Spec2Model ----------------------------
(* PicoAirSense: the BME280 driver (src/src/bme280.py) and the application  *)
(* around it (src/src/main.py), as state machines over a recorded I2C bus,  *)
(* an SGP30 sensor double, a baseline file and a clock.                     *)
EXTENDS Integers, Sequences, FiniteSets, TLC

VARIABLES
    arg,        \* arguments handed to the codec helper under test
    ret,        \* what the codec helper returned (<< >> before the call)
    dev_id,     \* device: content of the chip-id register 0xD0
    dev_tp,     \* device: the 26 calibration bytes at 0x88..0xA1
    dev_h,      \* device: the 7 calibration bytes at 0xE1..0xE7
    regs,       \* device: last byte written to each control register
    bus_log,    \* every transaction issued on the I2C bus, in order
    bme,        \* main.bme / the BME280 instance (NoBme before construction)
    outcome,    \* how the last operation ended: [op, status, val]
    n_calls,    \* operations invoked so far (caps the length of a run)
    sgp,        \* main.sgp: the SGP30 instance (NoSgp before init_sgp30)
    sgp_log,    \* every call made on the SGP30 instance, in order
    file,       \* the baseline file sgp30_baseline.txt: [exists, text]
    _last_baseline_save,    \* main._last_baseline_save
    clock,      \* what time.time() returns, in seconds
    file_writes,    \* every completed write of the baseline file: [at, by]
    maybe_calls \* invocations of maybe_save_sgp30_baseline: 0, 1, 2 = more

appVars == << sgp, sgp_log, file, _last_baseline_save, clock, file_writes,
              maybe_calls >>

vars == << arg, ret, dev_id, dev_tp, dev_h, regs, bus_log, bme, outcome,
           n_calls, appVars >>

NoSgp == [live |-> FALSE]
NoFile == [exists |-> FALSE, text |-> << >>]

\* The application's variables where they play no part.
AppIdle ==
    /\ sgp = NoSgp /\ sgp_log = << >> /\ file = NoFile
    /\ _last_baseline_save = 0 /\ clock = 1 /\ file_writes = << >>
    /\ maybe_calls = 0

Byte == 0 .. 255

(***************************************************************************)
(* Python's integer operators on unbounded two's-complement integers.      *)
(***************************************************************************)
RECURSIVE BitAnd(_, _)
BitAnd(x, y) ==
    IF x = 0 \/ y = 0 THEN 0
    ELSE IF x = -1 THEN y
    ELSE IF y = -1 THEN x
    ELSE (x % 2) * (y % 2) + 2 * BitAnd(x \div 2, y \div 2)

RECURSIVE BitOr(_, _)
BitOr(x, y) ==
    IF x = 0 THEN y
    ELSE IF y = 0 THEN x
    ELSE IF x = -1 \/ y = -1 THEN -1
    ELSE (IF x % 2 = 1 \/ y % 2 = 1 THEN 1 ELSE 0) + 2 * BitOr(x \div 2, y \div 2)

RECURSIVE Pow2(_)
Pow2(n) == IF n = 0 THEN 1 ELSE 2 * Pow2(n - 1)

Shl(x, n) == x * Pow2(n)
Shr(x, n) == x \div Pow2(n)

(***************************************************************************)
(* bme280.py: the register codec helpers.                                  *)
(***************************************************************************)
_u16_le(low, high) == BitOr(low, Shl(high, 8))

_s16_le(low, high) ==
    LET value == BitOr(low, Shl(high, 8))
    IN  IF BitAnd(value, 32768) # 0 THEN value - 1048576 ELSE value

_s8(b) == IF BitAnd(b, 128) # 0 THEN b - 256 ELSE b

raw_h4(e4, e5) ==
    LET raw == BitOr(Shl(e4, 4), BitAnd(e5, 15))
    IN  IF BitAnd(raw, 2048) # 0 THEN raw - Shl(1, 12) ELSE raw

raw_h5_low_nibble(e5, e6) ==
    LET raw == BitOr(Shl(e6, 4), BitAnd(e5, 15))
    IN  IF BitAnd(raw, 2048) # 0 THEN raw - Shl(1, 12) ELSE raw

raw_h5(e5, e6) ==
    LET raw == BitOr(Shl(e6, 4), Shr(e5, 4))
    IN  IF BitAnd(raw, 2048) # 0 THEN raw - Shl(1, 12) ELSE raw

(***************************************************************************)
(* bme280.py: the driver on a recorded bus.  A bus transaction is logged   *)
(* when it is issued; ok tells whether the bus carried it out.             *)
(***************************************************************************)
NoBme == [live |-> FALSE]

CHIP_ID == 208      \* 0xD0
CALIB_TP == 136     \* 0x88
CALIB_H == 225      \* 0xE1
CTRL_HUM == 242     \* 0xF2
CTRL_MEAS == 244    \* 0xF4
CONFIG == 245       \* 0xF5
BME280_ID == 96     \* 0x60

CtrlRegs == {CTRL_HUM, CTRL_MEAS, CONFIG}

Rd(reg, n, ok) == [op |-> "read", reg |-> reg, len |-> n, data |-> << >>, ok |-> ok]
Wr(reg, b, ok) == [op |-> "write", reg |-> reg, len |-> 1, data |-> << b >>, ok |-> ok]

\* buf[k] of the source: Python indexes from 0.
At(buf, k) == buf[k + 1]

_read_calibration_data(tp_buf, h_buf) ==
    [ dig_T1 |-> _u16_le(At(tp_buf, 0), At(tp_buf, 1)),
      dig_T2 |-> _s16_le(At(tp_buf, 2), At(tp_buf, 3)),
      dig_T3 |-> _s16_le(At(tp_buf, 4), At(tp_buf, 5)),
      dig_P1 |-> _u16_le(At(tp_buf, 6), At(tp_buf, 7)),
      dig_P2 |-> _s16_le(At(tp_buf, 8), At(tp_buf, 9)),
      dig_P3 |-> _s16_le(At(tp_buf, 10), At(tp_buf, 11)),
      dig_P4 |-> _s16_le(At(tp_buf, 12), At(tp_buf, 13)),
      dig_P5 |-> _s16_le(At(tp_buf, 14), At(tp_buf, 15)),
      dig_P6 |-> _s16_le(At(tp_buf, 16), At(tp_buf, 17)),
      dig_P7 |-> _s16_le(At(tp_buf, 18), At(tp_buf, 19)),
      dig_P8 |-> _s16_le(At(tp_buf, 20), At(tp_buf, 21)),
      dig_P9 |-> _s16_le(At(tp_buf, 22), At(tp_buf, 23)),
      dig_H1 |-> At(tp_buf, 25),
      dig_H2 |-> _s16_le(At(h_buf, 0), At(h_buf, 1)),
      dig_H3 |-> At(h_buf, 2),
      dig_H4 |-> raw_h4(At(h_buf, 3), At(h_buf, 4)),
      dig_H5 |-> raw_h5(At(h_buf, 4), At(h_buf, 5)),
      dig_H6 |-> _s8(At(h_buf, 6)) ]

ctrl_hum_clamped(o) ==
    IF BitAnd(o.osrs_h, 7) > 5 THEN 5 ELSE BitAnd(o.osrs_h, 7)
ctrl_hum(o) == BitAnd(o.osrs_h, 7)

config(o) ==
    BitOr(BitOr(Shl(BitAnd(o.t_sb, 7), 5), Shl(BitAnd(o.filter_coef, 7), 2)),
          o.spi3w_en)

ctrl_meas(o) ==
    BitOr(BitOr(Shl(BitAnd(o.osrs_t, 7), 5), Shl(BitAnd(o.osrs_p, 7), 2)),
          BitAnd(o.mode, 3))

\* The writes of _configure in program order: << register, value >>.
ConfigWrites(o) ==
    << << CTRL_HUM, ctrl_hum(o) >>, << CONFIG, config(o) >>,
       << CTRL_MEAS, ctrl_meas(o) >> >>

\* A _configure that goes on to the remaining writes after a failed one.
_configure_keeps_writing(o, failAt) ==
    LET ws == ConfigWrites(o)
    IN  [ log |-> [i \in 1 .. 3 |-> Wr(ws[i][1], ws[i][2], i # failAt)],
          status |-> IF failAt \in 1 .. 3 THEN "OSError" ELSE "ok",
          done |-> 3 ]

\* _configure on options o, on a bus whose failAt-th transaction of this call
\* fails (0: none does).  bytes([v]) raises ValueError for v outside 0..255,
\* before the write is issued; a failed write raises OSError.  The result is
\* the transactions issued, how the call ended and the writes carried out.
_configure(o, failAt) ==
    LET ws == ConfigWrites(o)
        Stops(i) == ws[i][2] \notin Byte \/ failAt = i
        stop == IF Stops(1) THEN 1 ELSE IF Stops(2) THEN 2
                ELSE IF Stops(3) THEN 3 ELSE 4
        status == IF stop = 4 THEN "ok"
                  ELSE IF ws[stop][2] \notin Byte THEN "ValueError"
                  ELSE "OSError"
        issued == IF status = "OSError" THEN stop ELSE stop - 1
    IN  [ log |-> [i \in 1 .. issued |-> Wr(ws[i][1], ws[i][2], i < stop)],
          status |-> status,
          done |-> stop - 1 ]

\* The control registers after the first n writes of _configure.
RegsAfter(r, o, n) ==
    [x \in CtrlRegs |->
        IF \E i \in 1 .. n : ConfigWrites(o)[i][1] = x
        THEN ConfigWrites(o)[CHOOSE i \in 1 .. n : ConfigWrites(o)[i][1] = x][2]
        ELSE r[x]]

\* The chip-id test of __init__: chip_id not in (0x60,) raises.
chip_id_accepts_bmp280(id) == id \in {88, BME280_ID}
chip_id_ok(id) == id \in {BME280_ID}

\* The burst reads of _read_calibration_data in program order:
\* << register, length >>.
CalibReads_h_first == << << CALIB_H, 7 >>, << CALIB_TP, 26 >> >>
CalibReads == << << CALIB_TP, 26 >>, << CALIB_H, 7 >> >>

\* BME280.__init__ with options o on a device answering id, tp, h, on a bus
\* whose failAt-th transaction of the call fails: the transactions issued,
\* how the call ended (val: the id carried by the error), the configuration
\* writes carried out and the instance (NoBme when the constructor raised).
BME280_init(o, failAt, id, tp, h) ==
    LET idRead(ok) == Rd(CHIP_ID, 1, ok)
        cal(i, ok) == Rd(CalibReads[i][1], CalibReads[i][2], ok)
        Raised(log, status, val) ==
            [log |-> log, status |-> status, val |-> val, done |-> 0,
             obj |-> NoBme]
    IN  IF failAt = 1
        THEN Raised(<< idRead(FALSE) >>, "OSError", << >>)
        ELSE IF ~chip_id_ok(id)
        THEN Raised(<< idRead(TRUE) >>, "RuntimeError", << id >>)
        ELSE IF failAt = 2
        THEN Raised(<< idRead(TRUE), cal(1, FALSE) >>, "OSError", << >>)
        ELSE IF failAt = 3
        THEN Raised(<< idRead(TRUE), cal(1, TRUE), cal(2, FALSE) >>,
                    "OSError", << >>)
        ELSE LET c == _configure(o, IF failAt > 3 THEN failAt - 3 ELSE 0)
             IN  [log |-> << idRead(TRUE), cal(1, TRUE), cal(2, TRUE) >> \o c.log,
                  status |-> c.status, val |-> << >>, done |-> c.done,
                  obj |-> IF c.status = "ok"
                          THEN [live |-> TRUE, opts |-> o,
                                dig |-> _read_calibration_data(tp, h)]
                          ELSE NoBme]

\* read_raw is a stub whose body is pass: it returns None and touches no bus.
PyNone == [py |-> "None"]
read_raw(obj) == PyNone

\* read unpacks read_raw's result into three names (TypeError when it is
\* None) and returns three names it never assigned (NameError otherwise).
read(obj) ==
    LET raw == read_raw(obj)
    IN  IF raw = PyNone
        THEN [status |-> "TypeError", val |-> << >>]
        ELSE [status |-> "NameError", val |-> << >>]

(***************************************************************************)
(* Values used where a variable plays no part in a specification.          *)
(***************************************************************************)
NoOutcome == [op |-> "none", status |-> "none", val |-> << >>]
ZeroBytes(n) == [i \in 1 .. n |-> 0]
NoRegs == << >>

(***************************************************************************)
(* SpecS16: _u16_le and _s16_le applied to every pair of bytes.            *)
(***************************************************************************)
InitS16 ==
    /\ arg \in Byte \X Byte
    /\ ret = << >>
    /\ dev_id = 0 /\ dev_tp = << >> /\ dev_h = << >> /\ regs = NoRegs
    /\ bus_log = << >> /\ bme = NoBme /\ outcome = NoOutcome
    /\ n_calls = 0
    /\ AppIdle

CallS16 ==
    /\ ret = << >>
    /\ ret' = << _u16_le(arg[1], arg[2]), _s16_le(arg[1], arg[2]) >>
    /\ UNCHANGED << arg, dev_id, dev_tp, dev_h, regs, bus_log, bme, outcome,
                    n_calls >>
    /\ UNCHANGED appVars

NextS16 == CallS16

SpecS16 == InitS16 /\ [][NextS16]_vars

\* C1: for every byte pair, _s16_le(low, high) is the little-endian value
\* low | (high << 8) when bit 15 is clear and that value minus 2^16 when bit
\* 15 is set, so it lies in [-32768, 32767] and differs from _u16_le only by
\* the 2^16 offset for values >= 0x8000.
C1_S16SignExtends ==
    ret # << >> =>
        LET u == arg[1] + 256 * arg[2]
        IN  /\ ret[1] = u
            /\ ret[2] = (IF u >= 32768 THEN u - 65536 ELSE u)
            /\ ret[2] \in -32768 .. 32767

(***************************************************************************)
(* The driver's operations as actions.  Construct takes its options from   *)
(* Opts; the bus fault, if any, is an input of each call.                  *)
(***************************************************************************)
MaxCalls == 2

DefaultOpts ==
    [spi3w_en |-> 0, osrs_t |-> 1, osrs_p |-> 1, osrs_h |-> 1,
     filter_coef |-> 0, t_sb |-> 0, mode |-> 0]

\* Two device images: calibration bytes with small positive trim values, and
\* an image with the sign bits of the signed and packed fields set.
TpImageA ==
    << 112, 107, 67, 103, 24, 252, 125, 142, 67, 214, 208, 11, 39, 11, 140,
       0, 249, 255, 140, 60, 248, 198, 112, 23, 0, 75 >>
HImageA == << 106, 1, 0, 19, 45, 3, 30 >>
TpImageB == [i \in 1 .. 26 |-> IF i % 2 = 0 THEN 128 + i ELSE 255 - i]
HImageB == << 255, 255, 200, 129, 164, 240, 156 >>

Construct(Opts) ==
    /\ outcome.op = "none"
    /\ \E o \in Opts, failAt \in 0 .. 6 :
         LET r == BME280_init(o, failAt, dev_id, dev_tp, dev_h)
         IN  /\ bus_log' = bus_log \o r.log
             /\ regs' = RegsAfter(regs, o, r.done)
             /\ bme' = r.obj
             /\ arg' = o
             /\ outcome' = [op |-> "__init__", status |-> r.status, val |-> r.val]
    /\ n_calls' = n_calls
    /\ UNCHANGED << ret, dev_id, dev_tp, dev_h >>
    /\ UNCHANGED appVars

Configure ==
    /\ bme.live
    /\ n_calls < MaxCalls
    /\ \E failAt \in 0 .. 3 :
         LET c == _configure(bme.opts, failAt)
         IN  /\ bus_log' = bus_log \o c.log
             /\ regs' = RegsAfter(regs, bme.opts, c.done)
             /\ outcome' = [op |-> "_configure", status |-> c.status, val |-> << >>]
    /\ n_calls' = n_calls + 1
    /\ UNCHANGED << arg, ret, dev_id, dev_tp, dev_h, bme >>
    /\ UNCHANGED appVars

ReadRaw ==
    /\ bme.live
    /\ n_calls < MaxCalls
    /\ outcome' = [op |-> "read_raw", status |-> "ok", val |-> << read_raw(bme) >>]
    /\ n_calls' = n_calls + 1
    /\ UNCHANGED << arg, ret, dev_id, dev_tp, dev_h, regs, bus_log, bme >>
    /\ UNCHANGED appVars

Read ==
    /\ bme.live
    /\ n_calls < MaxCalls
    /\ LET r == read(bme)
       IN  outcome' = [op |-> "read", status |-> r.status, val |-> r.val]
    /\ n_calls' = n_calls + 1
    /\ UNCHANGED << arg, ret, dev_id, dev_tp, dev_h, regs, bus_log, bme >>
    /\ UNCHANGED appVars

InitBus ==
    /\ arg = << >> /\ ret = << >>
    /\ regs = [x \in CtrlRegs |-> 0]
    /\ bus_log = << >> /\ bme = NoBme /\ outcome = NoOutcome
    /\ n_calls = 0
    /\ AppIdle

(***************************************************************************)
(* SpecDriver: one driver instance on devices answering with several chip  *)
(* ids and calibration images.                                             *)
(***************************************************************************)
DriverOpts ==
    { DefaultOpts,
      [DefaultOpts EXCEPT !.mode = 3, !.osrs_h = 5, !.filter_coef = 4],
      [DefaultOpts EXCEPT !.spi3w_en = 256] }

InitDriver ==
    /\ InitBus
    /\ dev_id \in {BME280_ID, 88, 0, 255}
    /\ \E img \in { << TpImageA, HImageA >>, << TpImageB, HImageB >> } :
         dev_tp = img[1] /\ dev_h = img[2]

NextDriver == Construct(DriverOpts) \/ Configure \/ ReadRaw \/ Read

SpecDriver == InitDriver /\ [][NextDriver]_vars

(***************************************************************************)
(* SpecConfig: construction and reconfiguration over option values inside  *)
(* and outside the documented field widths.                                *)
(***************************************************************************)
OsrsCodes == {5, 6, 7, 9}

ConfigOpts ==
    [spi3w_en : {0, 1, 2, 256, -1}, osrs_t : OsrsCodes, osrs_p : OsrsCodes,
     osrs_h : OsrsCodes, filter_coef : {0, 12}, t_sb : {0, 13}, mode : {0, 7}]

InitConfig ==
    /\ InitBus
    /\ dev_id = BME280_ID
    /\ dev_tp = TpImageA /\ dev_h = HImageA

NextConfig == Construct(ConfigOpts) \/ Configure

SpecConfig == InitConfig /\ [][NextConfig]_vars

(***************************************************************************)
(* SpecPacked12: the packed 12-bit decode of dig_H4 and dig_H5 applied to  *)
(* the humidity block of a device whose registers 0xE4..0xE6 hold a pair   *)
(* (h4, h5) in the nibble-shared layout of the data sheet.                 *)
(***************************************************************************)
H12 == -2048 .. 2047

\* Sixteen values of H12, one for each value of the low nibble.
NibbleSamples == {273 * k - 2048 : k \in 0 .. 15}

\* 0xE4 = h4[11:4], 0xE5[3:0] = h4[3:0], 0xE5[7:4] = h5[3:0], 0xE6 = h5[11:4],
\* on the 12-bit two's complement of h4 and h5.
PackedHBlock(h4, h5) ==
    LET u4 == h4 % 4096
        u5 == h5 % 4096
    IN  << 0, 0, 0, u4 \div 16, (u4 % 16) + 16 * (u5 % 16), u5 \div 16, 0 >>

InitPacked12 ==
    /\ arg \in (H12 \X NibbleSamples) \cup (NibbleSamples \X H12)
    /\ ret = << >>
    /\ dev_id = BME280_ID
    /\ dev_tp = ZeroBytes(26)
    /\ dev_h = PackedHBlock(arg[1], arg[2])
    /\ regs = NoRegs /\ bus_log = << >> /\ bme = NoBme /\ outcome = NoOutcome
    /\ n_calls = 0
    /\ AppIdle

DecodePacked12 ==
    /\ ret = << >>
    /\ ret' = << raw_h4(At(dev_h, 3), At(dev_h, 4)),
                 raw_h5(At(dev_h, 4), At(dev_h, 5)) >>
    /\ UNCHANGED << arg, dev_id, dev_tp, dev_h, regs, bus_log, bme, outcome,
                    n_calls >>
    /\ UNCHANGED appVars

NextPacked12 == DecodePacked12

SpecPacked12 == InitPacked12 /\ [][NextPacked12]_vars

\* C10: decoding the nibble-shared layout of (h4, h5) gives back dig_H4 = h4
\* and dig_H5 = h5, for every h4 and every h5 of [-2048, 2047] against every
\* value of the other's nibble in the shared byte 0xE5.
C10_Packed12RoundTrips == ret # << >> => ret = arg

C10_Witness == ret # << >> /\ arg = << -1, -1229 >> /\ ret[1] = -1 /\ ret[2] = -1229

(***************************************************************************)
(* Claims about the driver.                                                *)
(***************************************************************************)
Writes(log) == SelectSeq(log, LAMBDA e : e.op = "write")
AllOk(log) == \A i \in 1 .. Len(log) : log[i].ok
CountReads(log, reg) == Cardinality({i \in 1 .. Len(log) : log[i].reg = reg})
PowerOnRegs == [x \in CtrlRegs |-> 0]

\* C2: on a bus on which no transaction fails, every invocation of
\* _configure (the one of the constructor and each later one) issues exactly
\* three writes, to ctrl_hum, config, ctrl_meas in this order, whatever the
\* options are.
C2_ConfigureWritesThreeInOrder ==
    (outcome.op # "none" /\ AllOk(bus_log)) =>
        LET W == Writes(bus_log)
            invocations == (IF Len(bus_log) >= 3 THEN 1 ELSE 0) + n_calls
            order == << CTRL_HUM, CONFIG, CTRL_MEAS >>
        IN  /\ Len(W) = 3 * invocations
            /\ \A k \in 1 .. Len(W) : W[k].reg = order[((k - 1) % 3) + 1]

\* C3: when the byte read from the chip-id register is not 0x60, the
\* constructor raises an error carrying that byte, no instance exists, and
\* the id read is the only transaction on the bus: no calibration read, no
\* configuration write.
C3_WrongChipIdStopsInit ==
    (Len(bus_log) >= 1 /\ bus_log[1].ok /\ dev_id # BME280_ID) =>
        /\ outcome = [op |-> "__init__", status |-> "RuntimeError",
                      val |-> << dev_id >>]
        /\ bus_log = << Rd(CHIP_ID, 1, TRUE) >>
        /\ ~bme.live
        /\ regs = PowerOnRegs

C3_Witness ==
    /\ dev_id = 88
    /\ outcome.status = "RuntimeError"
    /\ Len(bus_log) = 1

\* C4: once an instance exists, the bus log starts with the id read, then
\* the 26-byte read at 0x88, then the 7-byte read at 0xE1, each calibration
\* block was read exactly once, everything after them is a configuration
\* write, the coefficients are those decoded from the two blocks, and no
\* later operation changes a coefficient.
C4_Shape ==
    bme.live =>
        /\ Len(bus_log) >= 6
        /\ bus_log[1] = Rd(CHIP_ID, 1, TRUE)
        /\ bus_log[2] = Rd(CALIB_TP, 26, TRUE)
        /\ bus_log[3] = Rd(CALIB_H, 7, TRUE)
        /\ CountReads(bus_log, CALIB_TP) = 1
        /\ CountReads(bus_log, CALIB_H) = 1
        /\ \A i \in 4 .. Len(bus_log) :
              bus_log[i].op = "write" /\ bus_log[i].reg \in CtrlRegs
        /\ bme.dig = _read_calibration_data(dev_tp, dev_h)

C4_CalibrationLoadedOnce ==
    /\ [] C4_Shape
    /\ [][bme.live => (bme'.live /\ bme'.dig = bme.dig)]_vars

C4_Witness ==
    /\ bme.live
    /\ n_calls >= 2
    /\ Len(bus_log) > 6
    /\ outcome.op = "read"

\* C9 (as claimed): with an oversampling code of 6 or 7, the ctrl_hum and
\* ctrl_meas bytes written are the bytes written for code 5, all other
\* options equal.
Code5(c) == IF c \in {6, 7} THEN 5 ELSE c
WithCode5(o) ==
    [o EXCEPT !.osrs_t = Code5(@), !.osrs_p = Code5(@), !.osrs_h = Code5(@)]

C9_Codes6And7WriteAsCode5 ==
    \A i \in 1 .. Len(bus_log) :
        LET e == bus_log[i]
        IN  /\ (e.op = "write" /\ e.reg = CTRL_HUM) =>
                e.data[1] = ctrl_hum(WithCode5(arg))
            /\ (e.op = "write" /\ e.reg = CTRL_MEAS) =>
                e.data[1] = ctrl_meas(WithCode5(arg))

\* C9 (amended): a code of 6 or 7 is written as it is into its 3-bit field:
\* the ctrl_hum byte exceeds the byte written for code 5 by code - 5, and the
\* ctrl_meas byte by 32 * (osrs_t - 5) and by 4 * (osrs_p - 5); nothing else
\* of the two bytes differs.
Over5(c) == IF c \in {6, 7} THEN c - 5 ELSE 0

C9_CodesWrittenAsGiven ==
    \A i \in 1 .. Len(bus_log) :
        LET e == bus_log[i]
        IN  /\ (e.op = "write" /\ e.reg = CTRL_HUM) =>
                e.data[1] = ctrl_hum(WithCode5(arg)) + Over5(arg.osrs_h)
            /\ (e.op = "write" /\ e.reg = CTRL_MEAS) =>
                e.data[1] = ctrl_meas(WithCode5(arg))
                            + 32 * Over5(arg.osrs_t) + 4 * Over5(arg.osrs_p)

C9_Witness ==
    /\ outcome.status = "ok"
    /\ n_calls >= 1
    /\ arg.osrs_h = 6 /\ arg.osrs_t = 7 /\ arg.osrs_p = 6
    /\ regs[CTRL_HUM] = 6
    /\ regs[CTRL_MEAS] \div 4 = 62

(***************************************************************************)
(* main.py: sensor initialisation and read_environment.  The SGP30 driver  *)
(* is a library outside the repository: each call on it is logged, may     *)
(* fail on the bus (fault), and iaq_measure returns the gas input.         *)
(***************************************************************************)
SgpCall(fn, args, ok) == [fn |-> fn, args |-> args, ok |-> ok]

\* read_environment on the globals b (bme) and s (sgp): how the call ended,
\* the tuple returned, the calls made on the SGP30 and the SGP30 afterwards.
read_environment(b, s, fault, gas) ==
    IF ~b.live \/ ~s.live
    THEN [status |-> "RuntimeError", val |-> << >>, calls |-> << >>, sgp |-> s]
    ELSE
    LET r == read(b)
    IN  IF r.status # "ok"
        THEN [status |-> r.status, val |-> << >>, calls |-> << >>, sgp |-> s]
        ELSE
        LET temperature_c == r.val[1]
            pressure_pa == r.val[2]
            humidity_percent == r.val[3]
            setter == SgpCall("set_iaq_rel_humidity",
                              << humidity_percent, temperature_c >>,
                              fault # "set")
            measure == SgpCall("iaq_measure", << >>, fault # "measure")
            s2 == [s EXCEPT !.comp = << humidity_percent, temperature_c >>]
        IN  IF fault = "set"
            THEN [status |-> "OSError", val |-> << >>,
                  calls |-> << setter >>, sgp |-> s]
            ELSE IF fault = "measure"
            THEN [status |-> "OSError", val |-> << >>,
                  calls |-> << setter, measure >>, sgp |-> s2]
            ELSE [status |-> "ok",
                  val |-> << temperature_c, pressure_pa, humidity_percent,
                             gas[1], gas[2] >>,
                  calls |-> << setter, measure >>, sgp |-> s2]

\* init_bme280: BME280(i2c=bus) with the class defaults; the global bme is
\* assigned only when the constructor returns.
InitBme280 ==
    /\ n_calls < MaxCalls
    /\ \E failAt \in 0 .. 6 :
         LET r == BME280_init(DefaultOpts, failAt, dev_id, dev_tp, dev_h)
         IN  /\ bus_log' = bus_log \o r.log
             /\ regs' = RegsAfter(regs, DefaultOpts, r.done)
             /\ bme' = IF r.status = "ok" THEN r.obj ELSE bme
             /\ outcome' = [op |-> "init_bme280", status |-> r.status,
                            val |-> r.val]
    /\ n_calls' = n_calls + 1
    /\ UNCHANGED << arg, ret, dev_id, dev_tp, dev_h, appVars >>

\* init_sgp30: Adafruit_SGP30(bus); the global sgp is assigned only when
\* the library's constructor returns.
InitSgp30 ==
    /\ n_calls < MaxCalls
    /\ \E ok \in BOOLEAN :
         /\ sgp' = IF ok THEN [live |-> TRUE, comp |-> << >>, baseline |-> << >>]
                   ELSE sgp
         /\ outcome' = [op |-> "init_sgp30",
                        status |-> IF ok THEN "ok" ELSE "OSError", val |-> << >>]
    /\ n_calls' = n_calls + 1
    /\ UNCHANGED << arg, ret, dev_id, dev_tp, dev_h, regs, bus_log, bme,
                    sgp_log, file, _last_baseline_save, clock, file_writes,
                    maybe_calls >>

GasValues == { << 400, 0 >>, << 612, 35 >> }
SgpFaults == {"none", "set", "measure"}

ReadEnvironment ==
    /\ \E fault \in SgpFaults, gas \in GasValues :
         LET r == read_environment(bme, sgp, fault, gas)
         IN  /\ sgp' = r.sgp
             /\ sgp_log' = sgp_log \o r.calls
             /\ outcome' = [op |-> "read_environment", status |-> r.status,
                            val |-> r.val]
             /\ arg' = << bme.live, sgp.live >>
    /\ UNCHANGED << ret, dev_id, dev_tp, dev_h, regs, bus_log, bme, n_calls,
                    file, _last_baseline_save, clock, file_writes,
                    maybe_calls >>

(***************************************************************************)
(* SpecEnv: the two sensors are initialised, in any order and possibly     *)
(* more than once, and read_environment is called at any time.             *)
(***************************************************************************)
InitEnv ==
    /\ InitBus
    /\ dev_id \in {BME280_ID, 88}
    /\ \E img \in { << TpImageA, HImageA >>, << TpImageB, HImageB >> } :
         dev_tp = img[1] /\ dev_h = img[2]

NextEnv == InitBme280 \/ InitSgp30 \/ ReadEnvironment

SpecEnv == InitEnv /\ [][NextEnv]_vars

\* C5: a read_environment cycle run with both sensors initialised calls
\* set_iaq_rel_humidity with the humidity and temperature of that cycle's
\* BME280 read and then iaq_measure: the last two calls on the SGP30 are
\* that setter and the measurement, whenever the cycle did not end in a bus
\* error.
C5_CompensationBeforeMeasure ==
    (outcome.op = "read_environment" /\ arg = << TRUE, TRUE >>
        /\ outcome.status # "OSError") =>
        /\ Len(sgp_log) >= 2
        /\ sgp_log[Len(sgp_log) - 1].fn = "set_iaq_rel_humidity"
        /\ sgp_log[Len(sgp_log)].fn = "iaq_measure"
        /\ sgp.comp = sgp_log[Len(sgp_log) - 1].args

\* C6: with both sensors initialised and no failing bus transaction,
\* read_environment ends without error and returns a 5-tuple.
C6_ReadEnvironmentReturnsTuple ==
    (outcome.op = "read_environment" /\ arg = << TRUE, TRUE >>
        /\ AllOk(bus_log) /\ AllOk(sgp_log)) =>
        /\ outcome.status = "ok"
        /\ Len(outcome.val) = 5

(***************************************************************************)
(* main.py: the baseline file.  A text is a sequence of characters.        *)
(***************************************************************************)
SGP30_BASELINE_SAVE_INTERVAL == 3600

DigitChars == << "0", "1", "2", "3", "4", "5", "6", "7", "8", "9" >>
IsDigit(c) == \E d \in 1 .. 10 : DigitChars[d] = c
DigitValue(c) == (CHOOSE d \in 1 .. 10 : DigitChars[d] = c) - 1
IsSpace(c) == c \in {" ", "\n", "\t", "\r"}

\* "{}".format(n) for an integer n.
RECURSIVE Decimal(_)
Decimal(n) ==
    IF n < 0 THEN << "-" >> \o Decimal(-n)
    ELSE IF n < 10 THEN << DigitChars[n + 1] >>
    ELSE Decimal(n \div 10) \o << DigitChars[(n % 10) + 1] >>

\* "{},{}\n".format(co2eq, tvoc)
BaselineLine(co2eq, tvoc) ==
    Decimal(co2eq) \o << "," >> \o Decimal(tvoc) \o << "\n" >>

RECURSIVE LStrip(_)
LStrip(t) ==
    IF t = << >> THEN t
    ELSE IF IsSpace(Head(t)) THEN LStrip(Tail(t)) ELSE t

RECURSIVE RStrip(_)
RStrip(t) ==
    IF t = << >> THEN t
    ELSE IF IsSpace(t[Len(t)]) THEN RStrip(SubSeq(t, 1, Len(t) - 1)) ELSE t

\* str.strip()
Strip(t) == RStrip(LStrip(t))

\* str.split(",", 1)
Split_first_comma_only(t) ==
    IF \E i \in 1 .. Len(t) : t[i] = ","
    THEN LET i == CHOOSE k \in 1 .. Len(t) :
                    t[k] = "," /\ \A j \in 1 .. k - 1 : t[j] # ","
         IN  << SubSeq(t, 1, i - 1),
                SelectSeq(SubSeq(t, i + 1, Len(t)), LAMBDA c : c # ",") >>
    ELSE << t >>

\* str.split(","): the fields between the commas, empty fields included.
RECURSIVE Split(_)
Split(t) ==
    IF \E i \in 1 .. Len(t) : t[i] = ","
    THEN LET i == CHOOSE k \in 1 .. Len(t) :
                    t[k] = "," /\ \A j \in 1 .. k - 1 : t[j] # ","
         IN  << SubSeq(t, 1, i - 1) >> \o Split(SubSeq(t, i + 1, Len(t)))
    ELSE << t >>

\* int(field): surrounding whitespace is ignored, then an optional sign and
\* at least one decimal digit; anything else raises ValueError.
IntBody(f) ==
    LET t == Strip(f)
    IN  IF t # << >> /\ Head(t) \in {"+", "-"} THEN Tail(t) ELSE t

IntParses(f) ==
    /\ IntBody(f) # << >>
    /\ \A i \in 1 .. Len(IntBody(f)) : IsDigit(IntBody(f)[i])

RECURSIVE DigitsValue(_)
DigitsValue(t) ==
    IF t = << >> THEN 0
    ELSE 10 * DigitsValue(SubSeq(t, 1, Len(t) - 1)) + DigitValue(t[Len(t)])

IntValue(f) ==
    IF Strip(f) # << >> /\ Head(Strip(f)) = "-"
    THEN -DigitsValue(IntBody(f)) ELSE DigitsValue(IntBody(f))

\* load_sgp30_baseline on the global s (sgp) and the file f; fault tells
\* whether sgp.set_iaq_baseline raises (OSError or RuntimeError).
load_sgp30_baseline(s, f, fault) ==
    LET Returns(b, calls, s2) ==
            [status |-> "ok", val |-> << b >>, calls |-> calls, sgp |-> s2]
        line == Strip(f.text)
        parts == Split(line)
    IN  IF ~s.live
        THEN [status |-> "RuntimeError", val |-> << >>, calls |-> << >>,
              sgp |-> s]
        ELSE IF ~f.exists THEN Returns(FALSE, << >>, s)
        ELSE IF line = << >> THEN Returns(FALSE, << >>, s)
        ELSE IF Len(parts) # 2 THEN Returns(FALSE, << >>, s)
        ELSE IF ~IntParses(parts[1]) \/ ~IntParses(parts[2])
        THEN Returns(FALSE, << >>, s)
        ELSE LET co2eq == IntValue(parts[1])
                 tvoc == IntValue(parts[2])
                 call == SgpCall("set_iaq_baseline", << co2eq, tvoc >>,
                                 fault = "none")
             IN  IF fault # "none"
                 THEN Returns(FALSE, << call >>, s)
                 ELSE Returns(TRUE, << call >>,
                              [s EXCEPT !.baseline = << co2eq, tvoc >>])

\* save_sgp30_baseline at time now; base is what sgp.get_iaq_baseline
\* returns, dur the seconds that pass until time.time() is read again.
\* fault: "bus" (get_iaq_baseline raises OSError), "open" (open raises
\* OSError, the file is untouched), "write" (the file is opened, hence
\* truncated, and the write raises OSError).
save_sgp30_baseline(s, f, last, now, base, fault, dur) ==
    LET Raised(status, calls, f2) ==
            [status |-> status, calls |-> calls, file |-> f2, last |-> last,
             wrote |-> FALSE, clock |-> now]
        get(ok) == SgpCall("get_iaq_baseline", << >>, ok)
    IN  IF ~s.live THEN Raised("RuntimeError", << >>, f)
        ELSE IF fault = "bus" THEN Raised("OSError", << get(FALSE) >>, f)
        ELSE IF fault = "open" THEN Raised("OSError", << get(TRUE) >>, f)
        ELSE IF fault = "write"
        THEN Raised("OSError", << get(TRUE) >>, [exists |-> TRUE, text |-> << >>])
        ELSE [status |-> "ok", calls |-> << get(TRUE) >>,
              file |-> [exists |-> TRUE, text |-> BaselineLine(base[1], base[2])],
              last |-> now + dur, wrote |-> TRUE, clock |-> now + dur]

\* The comparison of maybe_save_sgp30_baseline.
IntervalElapsed_strict(now, last) == now - last > SGP30_BASELINE_SAVE_INTERVAL
IntervalElapsed(now, last) == now - last >= SGP30_BASELINE_SAVE_INTERVAL

\* maybe_save_sgp30_baseline at time now: an OSError of the save is caught
\* and printed, any other error of it propagates.
maybe_save_sgp30_baseline(s, f, last, now, base, fault, dur) ==
    LET Quiet == [status |-> "ok", calls |-> << >>, file |-> f,
                  wrote |-> FALSE, clock |-> now]
    IN  IF last = 0 THEN Quiet @@ [last |-> now]
        ELSE IF IntervalElapsed(now, last)
        THEN LET r == save_sgp30_baseline(s, f, last, now, base, fault, dur)
             IN  [r EXCEPT !.status = IF @ = "OSError" THEN "ok" ELSE @]
        ELSE Quiet @@ [last |-> last]

(***************************************************************************)
(* The baseline operations as actions.  arg records what the call saw:     *)
(* << time.time(), _last_baseline_save, writes so far, fault >>.           *)
(***************************************************************************)
MaxSgpLog == 2
MaxClock == 7300

BaselineValues == { << 7, 77 >>, << 77, 7 >> }
SaveFaults == {"none", "bus", "open", "write"}
TickSteps == {1800, 3599, 3601}

LiveSgp == [live |-> TRUE, comp |-> << >>, baseline |-> << >>]

Tick ==
    /\ \E d \in TickSteps :
         /\ clock + d <= MaxClock
         /\ clock' = clock + d
    /\ UNCHANGED << arg, ret, dev_id, dev_tp, dev_h, regs, bus_log, bme,
                    outcome, n_calls, sgp, sgp_log, file,
                    _last_baseline_save, file_writes, maybe_calls >>

SaveBaseline ==
    /\ Len(sgp_log) < MaxSgpLog
    /\ \E base \in BaselineValues, fault \in SaveFaults, dur \in {0, 1} :
         LET r == save_sgp30_baseline(sgp, file, _last_baseline_save, clock,
                                      base, fault, dur)
         IN  /\ file' = r.file
             /\ _last_baseline_save' = r.last
             /\ clock' = r.clock
             /\ sgp_log' = sgp_log \o r.calls
             /\ file_writes' = IF r.wrote
                               THEN Append(file_writes,
                                           [at |-> clock, by |-> "save"])
                               ELSE file_writes
             /\ arg' = << clock, _last_baseline_save, Len(file_writes), fault >>
             /\ outcome' = [op |-> "save_sgp30_baseline", status |-> r.status,
                            val |-> << >>]
    /\ UNCHANGED << ret, dev_id, dev_tp, dev_h, regs, bus_log, bme, n_calls,
                    sgp, maybe_calls >>

MaybeSave ==
    /\ Len(sgp_log) < MaxSgpLog
    /\ \E base \in BaselineValues, fault \in SaveFaults, dur \in {0, 1} :
         LET r == maybe_save_sgp30_baseline(sgp, file, _last_baseline_save,
                                            clock, base, fault, dur)
         IN  /\ file' = r.file
             /\ _last_baseline_save' = r.last
             /\ clock' = r.clock
             /\ sgp_log' = sgp_log \o r.calls
             /\ file_writes' = IF r.wrote
                               THEN Append(file_writes,
                                           [at |-> clock, by |-> "maybe"])
                               ELSE file_writes
             /\ arg' = << clock, _last_baseline_save, Len(file_writes), fault,
                          maybe_calls = 0 >>
             /\ outcome' = [op |-> "maybe_save_sgp30_baseline",
                            status |-> r.status, val |-> << >>]
    /\ maybe_calls' = IF maybe_calls = 0 THEN 1 ELSE 2
    /\ UNCHANGED << ret, dev_id, dev_tp, dev_h, regs, bus_log, bme, n_calls,
                    sgp >>

LoadBaseline ==
    /\ n_calls < MaxCalls
    /\ \E fault \in {"none", "sensor"} :
         LET r == load_sgp30_baseline(sgp, file, fault)
         IN  /\ sgp' = r.sgp
             /\ sgp_log' = sgp_log \o r.calls
             /\ arg' = << sgp, sgp_log, fault >>
             /\ outcome' = [op |-> "load_sgp30_baseline", status |-> r.status,
                            val |-> r.val]
    /\ n_calls' = n_calls + 1
    /\ UNCHANGED << ret, dev_id, dev_tp, dev_h, regs, bus_log, bme, file,
                    _last_baseline_save, clock, file_writes, maybe_calls >>

DriverIdle ==
    /\ arg = << >> /\ ret = << >>
    /\ dev_id = BME280_ID /\ dev_tp = << >> /\ dev_h = << >> /\ regs = NoRegs
    /\ bus_log = << >> /\ bme = NoBme /\ outcome = NoOutcome /\ n_calls = 0

(***************************************************************************)
(* SpecBaseline: saves from the REPL and periodic saves under a clock      *)
(* that advances between the calls.                                        *)
(***************************************************************************)
InitBaseline ==
    /\ DriverIdle
    /\ sgp \in {NoSgp, LiveSgp}
    /\ sgp_log = << >>
    /\ file \in {NoFile, [exists |-> TRUE, text |-> BaselineLine(7, 77)]}
    /\ _last_baseline_save = 0
    /\ clock = 1
    /\ file_writes = << >>
    /\ maybe_calls = 0

NextBaseline == Tick \/ SaveBaseline \/ MaybeSave

SpecBaseline == InitBaseline /\ [][NextBaseline]_vars

\* C7 (as claimed): the first invocation of maybe_save_sgp30_baseline never
\* writes the file and sets the timestamp to the current time; a later
\* invocation writes if and only if the current time minus the timestamp is
\* at least the interval; a write resets the timestamp.  Stated for calls
\* with the SGP30 initialised and no I/O fault, and for the write alone.
C7_FirstCallNeverWrites ==
    (outcome.op = "maybe_save_sgp30_baseline" /\ sgp.live /\ arg[4] = "none") =>
        LET now == arg[1]
            last == arg[2]
            wrote == Len(file_writes) > arg[3]
            first == arg[5]
        IN  /\ first => ~wrote
            /\ ~first =>
                 (wrote <=> now - last >= SGP30_BASELINE_SAVE_INTERVAL)
            /\ wrote => _last_baseline_save >= now

\* C7 (amended): an invocation that finds the timestamp unset (0) never
\* writes and sets it to the current time; this is the first invocation
\* whenever no save has been written before it.  An invocation that finds
\* it set writes if and only if the current time minus the timestamp is at
\* least the interval and the save succeeds (SGP30 initialised, no I/O
\* error); a write sets the timestamp to the time read after the write, a
\* call that does not write leaves it.  Hence a write by maybe_save comes
\* at least one interval after the write before it.
C7_WritesOncePerInterval ==
    /\ (outcome.op = "maybe_save_sgp30_baseline") =>
        LET now == arg[1]
            last == arg[2]
            wrote == Len(file_writes) > arg[3]
            fault == arg[4]
            first == arg[5]
        IN  /\ (first /\ arg[3] = 0) => last = 0
            /\ last = 0 => (~wrote /\ _last_baseline_save = now)
            /\ last # 0 =>
                 (wrote <=> /\ now - last >= SGP30_BASELINE_SAVE_INTERVAL
                            /\ sgp.live
                            /\ fault = "none")
            /\ wrote => _last_baseline_save - now \in {0, 1}
            /\ (last # 0 /\ ~wrote) => _last_baseline_save = last
    /\ \A i \in 2 .. Len(file_writes) :
          file_writes[i].by = "maybe" =>
              file_writes[i].at - file_writes[i - 1].at
                  >= SGP30_BASELINE_SAVE_INTERVAL

C7_Witness ==
    /\ outcome.op = "maybe_save_sgp30_baseline"
    /\ Len(file_writes) = 2
    /\ file_writes[1].by = "maybe"
    /\ file_writes[2].by = "maybe"
    /\ file_writes[1].at - 1 = SGP30_BASELINE_SAVE_INTERVAL

(***************************************************************************)
(* SpecLoad: load_sgp30_baseline on every file text up to MaxText          *)
(* characters (and on no file), and on what save_sgp30_baseline wrote.     *)
(***************************************************************************)
MaxText == 4

Alphabet == {"7", ",", "x", "\n"}
Texts == UNION {[1 .. k -> Alphabet] : k \in 0 .. MaxText}

InitLoad ==
    /\ DriverIdle
    /\ sgp \in {NoSgp, LiveSgp}
    /\ sgp_log = << >>
    /\ file \in {NoFile} \cup {[exists |-> TRUE, text |-> t] : t \in Texts}
    /\ _last_baseline_save = 0
    /\ clock = 1
    /\ file_writes = << >>
    /\ maybe_calls = 0

NextLoad == LoadBaseline \/ SaveBaseline

SpecLoad == InitLoad /\ [][NextLoad]_vars

\* What the claim calls two decimal integers separated by a comma: exactly
\* one comma, and on each side of it, whitespace aside, digits and nothing
\* else.  The integer a field denotes is the one whose decimal form is the
\* field.
Ink(f) == {k \in 1 .. Len(f) : ~IsSpace(f[k])}
Trimmed(f) ==
    IF Ink(f) = {} THEN << >>
    ELSE SubSeq(f, CHOOSE k \in Ink(f) : \A j \in Ink(f) : k <= j,
                   CHOOSE k \in Ink(f) : \A j \in Ink(f) : k >= j)
IsDecimalInteger(f) ==
    /\ Trimmed(f) # << >>
    /\ \A k \in 1 .. Len(Trimmed(f)) : IsDigit(Trimmed(f)[k])
CommaPositions(t) == {i \in 1 .. Len(t) : t[i] = ","}
LeftField(t) == SubSeq(t, 1, (CHOOSE i \in CommaPositions(t) : TRUE) - 1)
RightField(t) == SubSeq(t, (CHOOSE i \in CommaPositions(t) : TRUE) + 1, Len(t))
TwoIntegers(f) ==
    /\ f.exists
    /\ Cardinality(CommaPositions(f.text)) = 1
    /\ IsDecimalInteger(LeftField(f.text))
    /\ IsDecimalInteger(RightField(f.text))

\* C8 (as claimed): called with the SGP30 initialised, load_sgp30_baseline
\* never raises; it returns False and makes no call on the sensor when the
\* file is missing, empty or not two integer fields; when the file holds
\* two decimal integers separated by a comma it applies exactly these two
\* to the sensor and returns True.
C8_LoadAppliesTwoIntegers ==
    (outcome.op = "load_sgp30_baseline" /\ arg[1].live) =>
        /\ outcome.status = "ok"
        /\ ~TwoIntegers(file) =>
             (outcome.val = << FALSE >> /\ sgp = arg[1] /\ sgp_log = arg[2])
        /\ TwoIntegers(file) =>
             /\ outcome.val = << TRUE >>
             /\ Len(sgp.baseline) = 2
             /\ Decimal(sgp.baseline[1]) = Trimmed(LeftField(file.text))
             /\ Decimal(sgp.baseline[2]) = Trimmed(RightField(file.text))

\* C8 (amended): as claimed, except that with two decimal integers in the
\* file the function calls set_iaq_baseline with exactly these two and
\* returns True when that call returns; when the call raises (OSError or
\* RuntimeError) the function returns False and the sensor keeps what it
\* had.
C8_LoadAppliesUnlessSensorRaises ==
    (outcome.op = "load_sgp30_baseline" /\ arg[1].live) =>
        /\ outcome.status = "ok"
        /\ ~TwoIntegers(file) =>
             (outcome.val = << FALSE >> /\ sgp = arg[1] /\ sgp_log = arg[2])
        /\ TwoIntegers(file) =>
             LET call == sgp_log[Len(sgp_log)]
             IN  /\ Len(sgp_log) = Len(arg[2]) + 1
                 /\ SubSeq(sgp_log, 1, Len(arg[2])) = arg[2]
                 /\ call.fn = "set_iaq_baseline"
                 /\ Decimal(call.args[1]) = Trimmed(LeftField(file.text))
                 /\ Decimal(call.args[2]) = Trimmed(RightField(file.text))
                 /\ call.ok = (arg[3] = "none")
                 /\ outcome.val = << call.ok >>
                 /\ sgp = IF call.ok
                          THEN [arg[1] EXCEPT !.baseline = call.args]
                          ELSE arg[1]

C8_Witness ==
    /\ outcome = [op |-> "load_sgp30_baseline", status |-> "ok",
                  val |-> << TRUE >>]
    /\ file.text = << "7", "7", ",", "7", "\n" >>
    /\ sgp.baseline = << 77, 7 >>
    /\ file_writes # << >>

(***************************************************************************)
(* main.py: print_environment and the loop of run_continuous.              *)
(***************************************************************************)
\* print_environment: read_environment, then one formatted line is printed;
\* it returns None and lets every error of read_environment through.
print_environment(b, s, fault, gas) ==
    LET r == read_environment(b, s, fault, gas)
    IN  [r EXCEPT !.val = << >>]

\* The errors the model raises are all subclasses of Exception, which is
\* what the except clause of run_continuous catches; KeyboardInterrupt is
\* not one.
IsException(e) ==
    e \in {"TypeError", "NameError", "OSError", "RuntimeError", "ValueError"}

\* One pass through the try block of run_continuous at time now: the calls
\* attempted, in order, the error that left the block ("none" when it ran
\* to its end) and what the calls did.
try_block(b, s, f, last, now, fault, gas, base, sfault, dur) ==
    LET p == print_environment(b, s, fault, gas)
    IN  IF p.status # "ok"
        THEN [attempted |-> << "print_environment" >>, raised |-> p.status,
              sgp |-> p.sgp, calls |-> p.calls, file |-> f, last |-> last,
              wrote |-> FALSE, clock |-> now]
        ELSE LET m == maybe_save_sgp30_baseline(p.sgp, f, last, now, base,
                                                sfault, dur)
             IN  [attempted |-> << "print_environment",
                                   "maybe_save_sgp30_baseline" >>,
                  raised |-> IF m.status = "ok" THEN "none" ELSE m.status,
                  sgp |-> p.sgp, calls |-> p.calls \o m.calls,
                  file |-> m.file, last |-> m.last, wrote |-> m.wrote,
                  clock |-> m.clock]

MaxCycles == 3

InLoop == outcome.op = "run_continuous"
Cycles == IF InLoop THEN arg[1] ELSE 0

\* One iteration of the while loop: the try block, the except clause and
\* time.sleep(1).  arg records << number of this cycle, the error caught in
\* it, the error caught in the cycle before >>, outcome.val the calls the
\* cycle attempted.
Cycle ==
    /\ InLoop => outcome.status = "sleeping"
    /\ Cycles < MaxCycles
    /\ \E fault \in SgpFaults, gas \in GasValues, base \in BaselineValues,
          sfault \in SaveFaults, dur \in {0, 1} :
         LET r == try_block(bme, sgp, file, _last_baseline_save, clock,
                            fault, gas, base, sfault, dur)
             caught == r.raised = "none" \/ IsException(r.raised)
         IN  /\ sgp' = r.sgp
             /\ sgp_log' = sgp_log \o r.calls
             /\ file' = r.file
             /\ _last_baseline_save' = r.last
             /\ file_writes' = IF r.wrote
                               THEN Append(file_writes,
                                           [at |-> clock, by |-> "maybe"])
                               ELSE file_writes
             /\ maybe_calls' = IF Len(r.attempted) < 2 THEN maybe_calls
                               ELSE IF maybe_calls = 0 THEN 1 ELSE 2
             /\ clock' = IF caught THEN r.clock + 1 ELSE r.clock
             /\ arg' = << Cycles + 1, r.raised,
                          IF InLoop THEN arg[2] ELSE "none" >>
             /\ outcome' = [op |-> "run_continuous",
                            status |-> IF caught THEN "sleeping" ELSE r.raised,
                            val |-> r.attempted]
    /\ UNCHANGED << ret, dev_id, dev_tp, dev_h, regs, bus_log, bme, n_calls >>

\* Ctrl+C: KeyboardInterrupt is not an Exception, so it leaves the loop.
Interrupt ==
    /\ InLoop /\ outcome.status = "sleeping"
    /\ outcome' = [outcome EXCEPT !.status = "KeyboardInterrupt"]
    /\ UNCHANGED << arg, ret, dev_id, dev_tp, dev_h, regs, bus_log, bme,
                    n_calls, appVars >>

(***************************************************************************)
(* SpecLoop: the sensors are initialised (or not, or only one of them),    *)
(* then run_continuous runs its cycles until it is interrupted.            *)
(***************************************************************************)
InitLoop == InitEnv

Startup == ~InLoop /\ (InitBme280 \/ InitSgp30)

NextLoop == Startup \/ Cycle \/ Interrupt

SpecLoop == InitLoop /\ [][NextLoop]_vars

\* C11: with both sensors initialised, a failure of a core operation in a
\* cycle of run_continuous never ends the loop (it is caught, the loop
\* sleeps and goes on), and in the cycle after a failed one both the read
\* and the baseline-save check are attempted again.
C11_FailedCycleIsRetried ==
    (InLoop /\ bme.live /\ sgp.live /\ outcome.status # "KeyboardInterrupt") =>
        /\ outcome.status = "sleeping"
        /\ (arg[1] >= 2 /\ arg[3] # "none") =>
              outcome.val = << "print_environment",
                               "maybe_save_sgp30_baseline" >>

(***************************************************************************)
(* Claims about failing configuration writes.                              *)
(***************************************************************************)
\* The transactions one step adds to the bus log.
Added == SubSeq(bus_log', Len(bus_log) + 1, Len(bus_log'))

\* C12: in every invocation of _configure (by the constructor or later), a
\* register write that fails is the last transaction of the invocation, the
\* invocation ends in the bus error (the constructor leaves no instance),
\* and when the failed write is the one to ctrl_hum or config, ctrl_meas is
\* not written in that invocation and keeps its value.
C12_FailedWriteIsLast ==
    \A i \in 1 .. Len(Added) :
        (Added[i].op = "write" /\ ~Added[i].ok) =>
            /\ i = Len(Added)
            /\ outcome'.status = "OSError"
            /\ outcome'.op \in {"__init__", "_configure"}
            /\ outcome'.op = "__init__" => ~bme'.live
            /\ Added[i].reg # CTRL_MEAS =>
                  /\ \A j \in 1 .. Len(Added) : Added[j].reg # CTRL_MEAS
                  /\ regs'[CTRL_MEAS] = regs[CTRL_MEAS]

C12_WriteFailureAborts == [][C12_FailedWriteIsLast]_vars

C12_Witness ==
    /\ outcome = [op |-> "_configure", status |-> "OSError", val |-> << >>]
    /\ Len(bus_log) = 8
    /\ bus_log[7] = Wr(CTRL_HUM, ctrl_hum(bme.opts), TRUE)
    /\ bus_log[8] = Wr(CONFIG, config(bme.opts), FALSE)
    /\ regs[CONFIG] = config(bme.opts)

\* C13: for every option set handed to the constructor, on a bus on which
\* no transaction fails, the constructor succeeds and the three bytes it
\* writes are in 0..255 and hold only their documented fields: ctrl_hum is
\* osrs_h mod 8, config is (t_sb mod 8) * 32 + (filter_coef mod 8) * 4 +
\* (spi3w_en mod 2), so its bit 1 is zero, and ctrl_meas is
\* (osrs_t mod 8) * 32 + (osrs_p mod 8) * 4 + (mode mod 4).
C13_BytesHoldOnlyTheirFields ==
    (outcome.op = "__init__" /\ AllOk(bus_log)) =>
        LET W == Writes(bus_log)
        IN  /\ outcome.status = "ok"
            /\ Len(W) = 3
            /\ \A k \in 1 .. 3 : W[k].data[1] \in Byte
            /\ W[1].reg = CTRL_HUM
            /\ W[1].data[1] = arg.osrs_h % 8
            /\ W[2].reg = CONFIG
            /\ W[2].data[1] = (arg.t_sb % 8) * 32 + (arg.filter_coef % 8) * 4
                              + (arg.spi3w_en % 2)
            /\ (W[2].data[1] \div 2) % 2 = 0
            /\ W[3].reg = CTRL_MEAS
            /\ W[3].data[1] = (arg.osrs_t % 8) * 32 + (arg.osrs_p % 8) * 4
                              + (arg.mode % 4)

=============================================================================
